---- MODULE Spec2Model ----
(***************************************************************************)
(* Model of src/script.js: the three-section vision-test wizard            *)
(* (Snellen section -> Duochrome section -> Result section).               *)
(*                                                                         *)
(* The state is the part of the DOM the script reads and writes: the       *)
(* value of the five inputs, the 'active' class of the three sections, the *)
(* textContent of the three result nodes, the element siblings that follow *)
(* each validated input (where the error spans live), the 'input-error'    *)
(* class of each validated input, and the event last dispatched.           *)
(*                                                                         *)
(* The handlers are registered once, on DOMContentLoaded, with no guard on *)
(* the section that is showing; the model therefore dispatches change,     *)
(* click and submit events in every state of the page.                     *)
(***************************************************************************)
EXTENDS Naturals, Sequences, FiniteSets

\* Number of non-empty options offered by each acuity <select>.
NumAcuity == 2

\* Number of non-empty options offered by the duochrome <select>.
NumDuochrome == 1

AcuityLabels == <<"6/6", "6/9", "6/12", "6/18", "6/24", "6/36">>
DuochromeLabels == <<"Red clearer", "Green clearer", "Both equal", "Neither">>

AcuityOptions == {AcuityLabels[i] : i \in 1..NumAcuity}
DuochromeOptions == {DuochromeLabels[i] : i \in 1..NumDuochrome}

\* ids of the elements the script looks up
RightEye == "right-eye"
LeftEye == "left-eye"
Duochrome == "duochrome"
HiddenRightEye == "hidden-right-eye"
HiddenLeftEye == "hidden-left-eye"
SnellenTest == "snellen-test"
DuochromeTest == "duochrome-test"
ResultSection == "result-section"
ResultRightEye == "result-right-eye"
ResultLeftEye == "result-left-eye"
ResultDuochrome == "result-duochrome"

Fields == {RightEye, LeftEye, Duochrome}
Carriers == {HiddenRightEye, HiddenLeftEye}
Sections == {SnellenTest, DuochromeTest, ResultSection}
ResultNodes == {ResultRightEye, ResultLeftEye, ResultDuochrome}

\* The options a user can pick in a field; "" is the placeholder option.
OptionsOf(f) == {""} \cup (IF f = Duochrome THEN DuochromeOptions ELSE AcuityOptions)

Message == "Please select a value."

VARIABLES
    value,            \* value[id]: the .value of each input (fields and carriers)
    active,           \* active[s]: section s has the class 'active'
    textContent,      \* textContent[n]: the text of each result node
    siblings,         \* siblings[f]: the element siblings after input f, in order
    inputError,       \* inputError[f]: input f has the class 'input-error'
    lastEvent,        \* the event last dispatched: "load", "change", "click", "submit"
    defaultPrevented, \* preventDefault() was called on that event
    navigated         \* the browser submitted the form and left the page

vars == <<value, active, textContent, siblings, inputError, lastEvent,
          defaultPrevented, navigated>>

\* The DOM as one record, the argument and result of the script's functions.
DOM == [value |-> value, active |-> active, textContent |-> textContent,
        siblings |-> siblings, inputError |-> inputError]

\* An element that is not an error span (whatever the markup puts after an input).
OtherElement == [cls |-> "", textContent |-> "", display |-> ""]

ErrorSpan(message, display) ==
    [cls |-> "error-message", textContent |-> message, display |-> display]

\* !input.value : a string is falsy exactly when it is empty.
Falsy(v) == v = ""

\* element.nextElementSibling is an error span
HasErrorSpan(sib) == Len(sib) > 0 /\ Head(sib).cls = "error-message"

(***************************************************************************)
(* The script's functions, as functions of the DOM record.                 *)
(***************************************************************************)

\* showDuochromeTest with the two carriers crossed.
showDuochromeTest_Crossed(d) ==
    [d EXCEPT !.active = [@ EXCEPT ![SnellenTest] = FALSE, ![DuochromeTest] = TRUE],
              !.value = [@ EXCEPT ![HiddenRightEye] = d.value[LeftEye],
                                  ![HiddenLeftEye] = d.value[RightEye]]]

showDuochromeTest(d) ==
    [d EXCEPT !.active = [@ EXCEPT ![SnellenTest] = FALSE, ![DuochromeTest] = TRUE],
              !.value = [@ EXCEPT ![HiddenRightEye] = d.value[RightEye],
                                  ![HiddenLeftEye] = d.value[LeftEye]]]

showResults(d) ==
    [d EXCEPT !.active = [@ EXCEPT ![DuochromeTest] = FALSE, ![ResultSection] = TRUE],
              !.textContent = [@ EXCEPT ![ResultRightEye] = d.value[RightEye],
                                        ![ResultLeftEye] = d.value[LeftEye],
                                        ![ResultDuochrome] = d.value[Duochrome]]]

\* createErrorMessage that inserts a new span on every call.
createErrorMessage_NoReuse(d, element, message) ==
    [d EXCEPT !.siblings[element] = <<ErrorSpan(message, "block")>> \o @,
              !.inputError[element] = TRUE]

\* createErrorMessage that displays the span and leaves the input's class alone.
createErrorMessage_NoClass(d, element, message) ==
    LET sib == d.siblings[element]
        withSpan == IF HasErrorSpan(sib) THEN sib ELSE <<ErrorSpan("", "")>> \o sib
    IN  [d EXCEPT !.siblings[element] =
                      <<ErrorSpan(message, "block")>> \o Tail(withSpan)]

createErrorMessage(d, element, message) ==
    LET sib == d.siblings[element]
        \* lines 35-39: create the span and insert it right after the input
        withSpan == IF HasErrorSpan(sib) THEN sib ELSE <<ErrorSpan("", "")>> \o sib
    IN  [d EXCEPT !.siblings[element] =
                      <<ErrorSpan(message, "block")>> \o Tail(withSpan),
                  !.inputError[element] = TRUE]

\* removeErrorMessage that takes the class off and leaves the span displayed.
removeErrorMessage_KeepSpan(d, element) ==
    [d EXCEPT !.inputError[element] = FALSE]

removeErrorMessage(d, element) ==
    LET sib == d.siblings[element]
    IN  [d EXCEPT !.siblings[element] =
                      IF HasErrorSpan(sib)
                      THEN <<[Head(sib) EXCEPT !.display = "none"]>> \o Tail(sib)
                      ELSE sib,
                  !.inputError[element] = FALSE]

\* One turn of the forEach callback of validateInputs, on the pair
\* [dom, isValid] the loop carries.
validateOne(acc, input) ==
    IF Falsy(acc.dom.value[input])
    THEN [dom |-> createErrorMessage(acc.dom, input, Message), isValid |-> FALSE]
    ELSE [dom |-> removeErrorMessage(acc.dom, input), isValid |-> acc.isValid]

RECURSIVE validateLoop(_, _)
validateLoop(acc, inputs) ==
    IF inputs = <<>> THEN acc
    ELSE validateLoop(validateOne(acc, Head(inputs)), Tail(inputs))

\* A loop that stops at the first empty input.
RECURSIVE validateLoop_ShortCircuit(_, _)
validateLoop_ShortCircuit(acc, inputs) ==
    IF inputs = <<>> \/ ~acc.isValid THEN acc
    ELSE validateLoop_ShortCircuit(validateOne(acc, Head(inputs)), Tail(inputs))

validateInputs_ShortCircuit(d, inputs) ==
    validateLoop_ShortCircuit([dom |-> d, isValid |-> TRUE], inputs)

\* validateInputs(inputs): the DOM it leaves and the boolean it returns.
validateInputs(d, inputs) ==
    validateLoop([dom |-> d, isValid |-> TRUE], inputs)

(***************************************************************************)
(* The two event handlers: the DOM each leaves, and whether it called      *)
(* event.preventDefault().                                                 *)
(***************************************************************************)

\* A click handler that advances whatever validateInputs returned.
nextButtonClick_NoGuard(d) ==
    [dom |-> showDuochromeTest(validateInputs(d, <<RightEye, LeftEye>>).dom),
     defaultPrevented |-> FALSE]

nextButtonClick(d) ==
    LET r == validateInputs(d, <<RightEye, LeftEye>>)
    IN  [dom |-> IF r.isValid THEN showDuochromeTest(r.dom) ELSE r.dom,
         defaultPrevented |-> FALSE]

\* A submit handler that lets the browser submit a valid form.
duochromeFormSubmit_SubmitsValid(d) ==
    LET r == validateInputs(d, <<Duochrome>>)
    IN  IF ~r.isValid
        THEN [dom |-> r.dom, defaultPrevented |-> TRUE]
        ELSE [dom |-> showResults(r.dom), defaultPrevented |-> FALSE]

\* A submit handler that shows the results whatever validateInputs returned.
duochromeFormSubmit_NoGuard(d) ==
    [dom |-> showResults(validateInputs(d, <<Duochrome>>).dom),
     defaultPrevented |-> TRUE]

\* A submit handler with the test of validateInputs the wrong way round.
duochromeFormSubmit_Inverted(d) ==
    LET r == validateInputs(d, <<Duochrome>>)
    IN  IF r.isValid
        THEN [dom |-> r.dom, defaultPrevented |-> TRUE]
        ELSE [dom |-> showResults(r.dom), defaultPrevented |-> TRUE]

duochromeFormSubmit(d) ==
    LET r == validateInputs(d, <<Duochrome>>)
    IN  IF ~r.isValid
        THEN [dom |-> r.dom, defaultPrevented |-> TRUE]
        ELSE [dom |-> showResults(r.dom), defaultPrevented |-> TRUE]

(***************************************************************************)
(* The page.                                                               *)
(***************************************************************************)

\* The page as loaded: the Snellen section showing, nothing selected, the
\* carriers and result nodes empty, no error span.  The markup is not part
\* of the script; the two layouts an input can have are both present: the
\* acuity inputs are the last element of their parent (nextElementSibling is
\* null), the duochrome input is followed by another element (the first
\* createErrorMessage meets a next element sibling that is no error span).
Init ==
    /\ value = [id \in Fields \cup Carriers |-> ""]
    /\ active = [s \in Sections |-> s = SnellenTest]
    /\ textContent = [n \in ResultNodes |-> ""]
    /\ siblings = [f \in Fields |-> IF f = Duochrome THEN <<OtherElement>> ELSE <<>>]
    /\ inputError = [f \in Fields |-> FALSE]
    /\ lastEvent = "load"
    /\ defaultPrevented = FALSE
    /\ navigated = FALSE

SetDOM(d) ==
    /\ value' = d.value
    /\ active' = d.active
    /\ textContent' = d.textContent
    /\ siblings' = d.siblings
    /\ inputError' = d.inputError

\* The user picks option v in field f; the script listens to no change event.
Change(f, v) ==
    /\ ~navigated
    /\ value[f] # v
    /\ value' = [value EXCEPT ![f] = v]
    /\ lastEvent' = "change"
    /\ defaultPrevented' = FALSE
    /\ UNCHANGED <<active, textContent, siblings, inputError, navigated>>

\* A click on the Next button.  A button click has no navigation to prevent
\* here: the handler is the whole of its effect.
NextClick ==
    /\ ~navigated
    /\ LET r == nextButtonClick(DOM)
       IN  /\ SetDOM(r.dom)
           /\ defaultPrevented' = r.defaultPrevented
    /\ lastEvent' = "click"
    /\ UNCHANGED navigated

\* A submit event on the duochrome form.  After the handler returns the
\* browser performs the default action (it submits the form and loads the
\* response) unless preventDefault() was called.
Submit ==
    /\ ~navigated
    /\ LET r == duochromeFormSubmit(DOM)
       IN  /\ SetDOM(r.dom)
           /\ defaultPrevented' = r.defaultPrevented
           /\ navigated' = ~r.defaultPrevented
    /\ lastEvent' = "submit"

Next ==
    \/ \E f \in Fields : \E v \in OptionsOf(f) : Change(f, v)
    \/ NextClick
    \/ Submit

Spec == Init /\ [][Next]_vars

\* The user's part of a recovery: an empty field is filled, and an attempt
\* is made with the fields it validates filled.
Fill(f) == value[f] = "" /\ \E v \in OptionsOf(f) \ {""} : Change(f, v)

ValidClick == \A f \in {RightEye, LeftEye} : ~Falsy(value[f])

ValidSubmit == ~Falsy(value[Duochrome])

\* Fairness of the user's edits and attempts: a field left empty is filled
\* in the end, and a user who has the fields of an attempt filled again and
\* again makes that attempt in the end.  The event loop runs each dispatched
\* handler to its end (no handler blocks or waits), so an attempt made is an
\* attempt handled.
FairSpec ==
    /\ Spec
    /\ \A f \in Fields : WF_vars(Fill(f))
    /\ SF_vars(ValidClick /\ NextClick)
    /\ SF_vars(ValidSubmit /\ Submit)

(***************************************************************************)
(* Observations on a state.                                                *)
(***************************************************************************)

\* The error spans among the siblings of field f.
Annotations(f) == {i \in 1..Len(siblings[f]) : siblings[f][i].cls = "error-message"}

\* Field f carries a displayed annotation with the message.
AnnotationShown(f) ==
    \E i \in Annotations(f) : /\ siblings[f][i].display = "block"
                              /\ siblings[f][i].textContent = Message

\* Field f carries some displayed annotation.
AnnotationVisible(f) == \E i \in Annotations(f) : siblings[f][i].display = "block"

(***************************************************************************)
(* Claims.                                                                 *)
(***************************************************************************)

EyeFields == {RightEye, LeftEye}

SomeEyeEmpty == \E f \in EyeFields : value[f] = ""

\* C1: a click on Next while the Snellen section is active and right-eye or
\* left-eye is empty leaves the Snellen section active and the Duochrome
\* section inactive, and leaves every empty one of the two fields with a
\* displayed annotation reading "Please select a value.".
C1_FailedAdvanceBlocked ==
    [][(lastEvent' = "click" /\ active[SnellenTest] /\ SomeEyeEmpty)
         => /\ active'[SnellenTest]
            /\ ~active'[DuochromeTest]
            /\ \A f \in EyeFields : value[f] = "" => AnnotationShown(f)']_vars

\* A failed advance has happened with the left eye alone empty.
C1_Witness ==
    /\ lastEvent = "click"
    /\ active[SnellenTest] /\ ~active[DuochromeTest]
    /\ value[RightEye] # "" /\ value[LeftEye] = ""
    /\ AnnotationShown(LeftEye)

\* C2: a click on Next while the Snellen section is active and both
\* right-eye and left-eye are non-empty activates the Duochrome section,
\* deactivates the Snellen section and leaves hidden-right-eye and
\* hidden-left-eye equal to the right-eye and left-eye values.
C2_AdvanceCopies ==
    [][(lastEvent' = "click" /\ active[SnellenTest] /\ ~SomeEyeEmpty)
         => /\ active'[DuochromeTest]
            /\ ~active'[SnellenTest]
            /\ value'[HiddenRightEye] = value[RightEye]
            /\ value'[HiddenLeftEye] = value[LeftEye]]_vars

\* An advance has happened with two different values.
C2_Witness ==
    /\ lastEvent = "click"
    /\ active[DuochromeTest] /\ ~active[SnellenTest]
    /\ value[HiddenRightEye] = "6/6" /\ value[HiddenLeftEye] = "6/9"

\* C3: a submit while the Duochrome section is active and duochrome is
\* non-empty activates the Result section, deactivates the Duochrome section
\* and leaves the result nodes showing the right-eye and left-eye values
\* validated at the advance (the carriers hold them) and the duochrome value.
C3_ResultShowsOriginal ==
    [][(lastEvent' = "submit" /\ active[DuochromeTest] /\ value[Duochrome] # "")
         => /\ active'[ResultSection]
            /\ ~active'[DuochromeTest]
            /\ textContent'[ResultRightEye] = value[HiddenRightEye]
            /\ textContent'[ResultLeftEye] = value[HiddenLeftEye]
            /\ textContent'[ResultDuochrome] = value[Duochrome]]_vars

\* C4: a submit while the Duochrome section is active and duochrome is empty
\* does not activate the Result section, leaves the Duochrome section active
\* and leaves a displayed annotation "Please select a value." on duochrome.
C4_FailedFinalizeBlocked ==
    [][(lastEvent' = "submit" /\ active[DuochromeTest] /\ value[Duochrome] = "")
         => /\ active'[ResultSection] = active[ResultSection]
            /\ active'[DuochromeTest]
            /\ AnnotationShown(Duochrome)']_vars

\* A failed finalize has happened.
C4_Witness ==
    /\ lastEvent = "submit"
    /\ active[DuochromeTest] /\ ~active[ResultSection]
    /\ value[Duochrome] = ""
    /\ AnnotationShown(Duochrome)

\* C5: every submit event has preventDefault called on it, valid or not and
\* in whatever section, and the page is never left.
C5_SubmitSuppressed ==
    /\ lastEvent = "submit" => defaultPrevented
    /\ ~navigated

\* A valid submit has happened, its default action prevented.
C5_Witness ==
    /\ lastEvent = "submit" /\ defaultPrevented
    /\ value[Duochrome] # ""
    /\ active[ResultSection]

\* C6: exactly one of the three sections is active.
C6_ExactlyOneActive == Cardinality({s \in Sections : active[s]}) = 1

\* C7: the active section only moves forward: once the Result section is
\* active it stays active and neither other section becomes active, and once
\* the Duochrome section has been active the Snellen section is never
\* active again.
C7_StrictlyForward ==
    [][/\ active[ResultSection]
          => /\ active'[ResultSection]
             /\ active'[SnellenTest] => active[SnellenTest]
             /\ active'[DuochromeTest] => active[DuochromeTest]
       /\ ~active[SnellenTest] => ~active'[SnellenTest]]_vars

\* C8: each field has at most one annotation node.
C8_AtMostOneAnnotation == \A f \in Fields : Cardinality(Annotations(f)) <= 1

\* Every field has failed validation; the annotation of left-eye was
\* created by one attempt and hidden by a later one, which met the
\* annotation of right-eye or created it.
C8_Witness ==
    /\ \A f \in Fields : Cardinality(Annotations(f)) = 1
    /\ AnnotationShown(Duochrome) /\ AnnotationShown(RightEye)
    /\ ~AnnotationVisible(LeftEye)

\* C9: right after a click on Next, the annotation of right-eye, and of
\* left-eye, is displayed exactly when that field was empty at the click;
\* and while one of them is empty the sections stay as they were.
C9_EachFieldValidated ==
    [][lastEvent' = "click"
         => /\ \A f \in EyeFields : AnnotationVisible(f)' <=> value[f] = ""
            /\ SomeEyeEmpty => active' = active]_vars

\* Both failed, then right-eye alone was filled and the click repeated: its
\* annotation exists and is hidden, that of left-eye is displayed.
C9_Witness ==
    /\ lastEvent = "click"
    /\ active[SnellenTest] /\ ~active[DuochromeTest]
    /\ value[RightEye] # "" /\ value[LeftEye] = ""
    /\ Annotations(RightEye) # {} /\ ~AnnotationVisible(RightEye)
    /\ AnnotationShown(LeftEye)

\* C10: when a submit in the Duochrome section activates the Result section,
\* result-right-eye equals hidden-right-eye and result-left-eye equals
\* hidden-left-eye.
C10_ResultFromCarriers ==
    [][(lastEvent' = "submit" /\ active[DuochromeTest] /\ value[Duochrome] # "")
         => /\ textContent'[ResultRightEye] = value'[HiddenRightEye]
            /\ textContent'[ResultLeftEye] = value'[HiddenLeftEye]]_vars

\* C11: once the Result section is active (the result nodes have been
\* populated by a successful finalize), no later event changes the text of a
\* result node.
C11_SnapshotNeverMutated ==
    [][active[ResultSection] => textContent' = textContent]_vars

\* The field validated by an event: the click validates right-eye and
\* left-eye, the submit validates duochrome.
ValidatedBy(event) ==
    IF event = "click" THEN EyeFields
    ELSE IF event = "submit" THEN {Duochrome}
    ELSE {}

\* C12 as stated: in every state each field's annotation is displayed
\* exactly when the field's current value is empty.
C12_AnnotationTracksValue ==
    \A f \in Fields : AnnotationVisible(f) <=> value[f] = ""

\* C12 as amended: right after an event that validates a field (a click for
\* right-eye and left-eye, a submit for duochrome) that field's annotation is
\* displayed exactly when its value is empty.
C12_AnnotationTracksValidatedValue ==
    \A f \in ValidatedBy(lastEvent) : AnnotationVisible(f) <=> value[f] = ""

\* A submit has just validated a filled duochrome field whose annotation an
\* earlier failed submit had displayed, while the annotation of right-eye
\* is stale: displayed, the field since filled.
C12_Witness ==
    /\ lastEvent = "submit"
    /\ value[Duochrome] # ""
    /\ Annotations(Duochrome) # {} /\ ~AnnotationVisible(Duochrome)
    /\ value[RightEye] # "" /\ AnnotationVisible(RightEye)

C14_FailedAttemptFrame ==
    [][((lastEvent' = "click" /\ SomeEyeEmpty)
          \/ (lastEvent' = "submit" /\ value[Duochrome] = ""))
         => /\ active' = active
            /\ value' = value
            /\ textContent' = textContent]_vars

\* A failed submit has happened in the Duochrome section, the carriers set
\* by the advance still in place.
C14_Witness ==
    /\ lastEvent = "submit"
    /\ value[Duochrome] = "" /\ AnnotationShown(Duochrome)
    /\ active[DuochromeTest] /\ ~active[ResultSection]
    /\ value[HiddenRightEye] = "6/6" /\ value[HiddenLeftEye] = "6/9"

\* C15: the Result section is only activated from a state in which the
\* Duochrome section is active, and whenever it is active the three result
\* nodes are non-empty.
C15_ResultOnlyFromDuochrome ==
    [][/\ (~active[ResultSection] /\ active'[ResultSection]) => active[DuochromeTest]
       /\ active'[ResultSection] => \A n \in ResultNodes : textContent'[n] # ""]_vars

\* C16: a field's input has the class 'input-error' exactly when the field
\* has an annotation node and that node is displayed.
C16_ClassFollowsAnnotation ==
    \A f \in Fields : inputError[f] <=> AnnotationVisible(f)

\* Both decorations are on for one field and, after a failed attempt and a
\* valid one, both off for another whose annotation node exists.
C16_Witness ==
    /\ inputError[LeftEye] /\ AnnotationVisible(LeftEye)
    /\ ~inputError[RightEye] /\ Annotations(RightEye) # {} /\ ~AnnotationVisible(RightEye)
    /\ inputError[Duochrome] /\ AnnotationVisible(Duochrome)

====
